---- MODULE Spec2Model ----
(***************************************************************************)
(* Swimlane layout engine of src/utils/txt_to_swimlanes.py:                *)
(*   parse_data               triple stream -> procedure graph + tooltips  *)
(*   calculate_vertical_order one procedure's items -> rank per item       *)
(*   create_drawio_xml        graph -> pools, lanes, node copies, edges    *)
(*                                                                         *)
(* Three specifications share the variables:                               *)
(*   Spec        the whole pipeline driven by a stream of triples          *)
(*   SpecLevel   calculate_vertical_order, one loop iteration per step,    *)
(*               on item graphs drawn by InitLevel                         *)
(*   SpecLayout  create_drawio_xml on graphs drawn by InitLayout           *)
(***************************************************************************)
EXTENDS Integers, Sequences, FiniteSets, TLC

VARIABLES
    pc,               \* position in the pipeline
    data_struct,      \* parse_data: ordered procedure -> ordered item -> meta
    item_to_milestone,\* parse_data: item id -> owning procedure (or None)
    tooltips,         \* parse_data: id -> source text (or None)
    nread,            \* number of triples consumed from the stream
    last,             \* the triple consumed by the latest loop iteration
    first_owner,      \* history: item id -> subject of the first hasSequencedItem naming it
    dropped_refs,     \* history: subjects of hasStakeholder/hasNext triples met before any hasSequencedItem
    accepted,         \* history: item id -> the stakeholder names line 43 appended for it
    lv,               \* calculate_vertical_order: its locals (SpecLevel)
    milestone_idx,    \* create_drawio_xml: how many procedures the pool loop has visited
    current_x,        \* create_drawio_xml: x of the next pool
    color_counter,    \* create_drawio_xml: palette cursor
    multi_item_color, \* create_drawio_xml: item id -> bound palette index (or None)
    id_map,           \* create_drawio_xml: item id -> (stakeholder -> node id or None)
    uuid_seed,        \* the random state uuid.uuid4 draws from
    uuid_count,       \* how many identifiers uuid.uuid4 has handed out
    doc,              \* the emitted cells, in document order
    earlier           \* what an earlier call of create_drawio_xml returned (SpecRerun)

vars == <<pc, data_struct, item_to_milestone, tooltips, nread, last, first_owner,
          dropped_refs, accepted, lv, milestone_idx, current_x, color_counter,
          multi_item_color, id_map, uuid_seed, uuid_count, doc, earlier>>

parseVars  == <<data_struct, item_to_milestone, tooltips, nread, last, first_owner,
                dropped_refs, accepted>>
layoutVars == <<milestone_idx, current_x, color_counter, multi_item_color, id_map,
                uuid_seed, uuid_count, doc, earlier>>

-----------------------------------------------------------------------------
(* Bounds of the model *)

\* triples the stream of Spec may hold
MaxTriples == 4
\* items of the procedure InitLevel draws
MaxLevelItems == 3
\* size of the procedure InitLevel draws: its items plus its hasNext triples
MaxLevelSize == 6
\* items of the first procedure InitLayout draws
MaxPoolItems == 3
\* size of the graph InitLayout draws: its items, their stakeholders beyond the
\* first, and its hasNext triples
MaxGraphSize == 4
\* items InitPalette draws: two more than the palette has colours
MaxPaletteItems == 12

(* Identifiers the inputs are drawn from *)
None == "None"
ProcIds == {"P1", "P2"}
ItemIds == {"a", "b"}
Unassigned == "Unassigned"
StakeholderNames == {"A", "B", Unassigned}
TipSubjects == {"P1", "a"}
TipTexts == {"t"}

\* lexicographic order of the stakeholder names in use (Python str comparison)
LaneOrder == <<"A", "B", "C", "Unassigned">>

-----------------------------------------------------------------------------
(* Sequence helpers *)

\* f itself. A Python dict is a stored table: comparing the function with itself
\* makes TLC tabulate it once rather than re-evaluate its defining expression at
\* every application.
Stored(f) == IF f = f THEN f ELSE f

Range(s) == {s[i] : i \in DOMAIN s}

Contains(s, x) == \E i \in DOMAIN s : s[i] = x

\* position of the entry with identifier x in a sequence of records, 0 if absent
IndexOf(s, x) ==
    LET at == {i \in DOMAIN s : s[i].id = x}
    IN IF at = {} THEN 0 ELSE CHOOSE i \in at : TRUE

MaxNextLen(items) ==
    IF items = <<>> THEN 0
    ELSE LET k == CHOOSE k \in DOMAIN items :
                    \A m \in DOMAIN items : Len(items[m].next) <= Len(items[k].next)
         IN Len(items[k].next)

-----------------------------------------------------------------------------
(* parse_data *)

NewItem(obj) == [id |-> obj, stakeholders |-> <<>>, next |-> <<>>]
NewProc(subj) == [id |-> subj, items |-> <<>>]

\* data_struct[subj] = {"items": {}} unless subj is already a key
EnsureProc(ds, subj) ==
    IF IndexOf(ds, subj) = 0 THEN Append(ds, NewProc(subj)) ELSE ds

\* mutant of EnsureItem: the entry is assigned whether or not obj is a key
EnsureItemReset(ds, subj, obj) ==
    LET p == IndexOf(ds, subj) IN
    IF IndexOf(ds[p].items, obj) = 0
    THEN [ds EXCEPT ![p].items = Append(@, NewItem(obj))]
    ELSE [ds EXCEPT ![p].items[IndexOf(ds[p].items, obj)] = NewItem(obj)]

\* data_struct[subj]["items"][obj] = {...} unless obj is already a key
EnsureItem(ds, subj, obj) ==
    LET p == IndexOf(ds, subj) IN
    IF IndexOf(ds[p].items, obj) = 0
    THEN [ds EXCEPT ![p].items = Append(@, NewItem(obj))]
    ELSE ds

\* milestone_id and subj in data_struct[milestone_id]["items"]
OwnedItem(ds, i2m, subj) ==
    /\ subj \in DOMAIN i2m
    /\ i2m[subj] # None
    /\ IndexOf(ds, i2m[subj]) # 0
    /\ IndexOf(ds[IndexOf(ds, i2m[subj])].items, subj) # 0

\* mutant of AddStakeholder: a reference to an item no procedure owns is kept,
\* filed under a procedure of its own, instead of being dropped
AddStakeholderKeep(ds, i2m, subj, obj) ==
    IF OwnedItem(ds, i2m, subj)
    THEN LET p == IndexOf(ds, i2m[subj])
             k == IndexOf(ds[p].items, subj)
         IN IF Contains(ds[p].items[k].stakeholders, obj)
            THEN ds
            ELSE [ds EXCEPT ![p].items[k].stakeholders = Append(@, obj)]
    ELSE Append(ds, [id |-> None,
                     items |-> <<[id |-> subj, stakeholders |-> <<obj>>, next |-> <<>>]>>])

\* lines 38-43
AddStakeholder(ds, i2m, subj, obj) ==
    IF OwnedItem(ds, i2m, subj)
    THEN LET p == IndexOf(ds, i2m[subj])
             k == IndexOf(ds[p].items, subj)
         IN IF Contains(ds[p].items[k].stakeholders, obj)
            THEN ds
            ELSE [ds EXCEPT ![p].items[k].stakeholders = Append(@, obj)]
    ELSE ds

\* mutant of AddNext: a successor that is no item of the graph is not stored
AddNextKnownOnly(ds, i2m, subj, obj) ==
    IF OwnedItem(ds, i2m, subj)
          /\ \E p \in DOMAIN ds : IndexOf(ds[p].items, obj) # 0
    THEN LET p == IndexOf(ds, i2m[subj])
             k == IndexOf(ds[p].items, subj)
         IN [ds EXCEPT ![p].items[k].next = Append(@, obj)]
    ELSE ds

\* lines 45-48
AddNext(ds, i2m, subj, obj) ==
    IF OwnedItem(ds, i2m, subj)
    THEN LET p == IndexOf(ds, i2m[subj])
             k == IndexOf(ds[p].items, subj)
         IN [ds EXCEPT ![p].items[k].next = Append(@, obj)]
    ELSE ds

\* the fallback loop: an item with no stakeholder gets ["Unassigned"]
Fallback(ds) ==
    [p \in DOMAIN ds |->
        [ds[p] EXCEPT !.items =
            [k \in DOMAIN ds[p].items |->
                IF ds[p].items[k].stakeholders = <<>>
                THEN [ds[p].items[k] EXCEPT !.stakeholders = <<Unassigned>>]
                ELSE ds[p].items[k]]]]

Triple(subj, pred, obj) == [subj |-> subj, pred |-> pred, obj |-> obj]

NoTriple == Triple(None, None, None)

\* what every loop iteration does besides its branch
Consume(subj, pred, obj) ==
    /\ pc = "parse"
    /\ nread < MaxTriples
    /\ nread' = nread + 1
    /\ last' = Triple(subj, pred, obj)
    /\ pc' = pc
    /\ UNCHANGED <<lv, layoutVars>>

SourceText(subj, obj) ==
    /\ Consume(subj, "sourcetext", obj)
    /\ tooltips' = [tooltips EXCEPT ![subj] = obj]
    /\ UNCHANGED <<data_struct, item_to_milestone, first_owner, dropped_refs, accepted>>

TypeTriple(subj, obj) ==
    /\ Consume(subj, "type", obj)
    /\ data_struct' = IF obj = "Procedure" THEN EnsureProc(data_struct, subj) ELSE data_struct
    /\ UNCHANGED <<item_to_milestone, tooltips, first_owner, dropped_refs, accepted>>

HasSequencedItem(subj, obj) ==
    /\ Consume(subj, "hassequenceditem", obj)
    /\ data_struct' = EnsureItem(EnsureProc(data_struct, subj), subj, obj)
    /\ item_to_milestone' = [item_to_milestone EXCEPT ![obj] = subj]
    /\ first_owner' = IF first_owner[obj] = None
                      THEN [first_owner EXCEPT ![obj] = subj]
                      ELSE first_owner
    /\ UNCHANGED <<tooltips, dropped_refs, accepted>>

HasStakeholder(subj, obj) ==
    /\ Consume(subj, "hasstakeholder", obj)
    /\ data_struct' = AddStakeholder(data_struct, item_to_milestone, subj, obj)
    /\ dropped_refs' = IF first_owner[subj] = None
                       THEN dropped_refs \cup {subj} ELSE dropped_refs
    /\ accepted' = IF data_struct' # data_struct
                   THEN [accepted EXCEPT ![subj] = @ \cup {obj}] ELSE accepted
    /\ UNCHANGED <<item_to_milestone, tooltips, first_owner>>

HasNext(subj, obj) ==
    /\ Consume(subj, "hasnext", obj)
    /\ data_struct' = AddNext(data_struct, item_to_milestone, subj, obj)
    /\ dropped_refs' = IF first_owner[subj] = None
                       THEN dropped_refs \cup {subj} ELSE dropped_refs
    /\ UNCHANGED <<item_to_milestone, tooltips, first_owner, accepted>>

\* the stream is exhausted: fallback loop and return
Finalize ==
    /\ pc = "parse"
    /\ pc' = "parsed"
    /\ data_struct' = Fallback(data_struct)
    /\ UNCHANGED <<item_to_milestone, tooltips, nread, last, first_owner, dropped_refs,
                   accepted>>
    /\ UNCHANGED <<lv, layoutVars>>

-----------------------------------------------------------------------------
(* calculate_vertical_order *)

ItemKeys(items) == {items[k].id : k \in DOMAIN items}

ItemIdSeq(items) == [k \in DOMAIN items |-> items[k].id]

\* s without the repetitions of its elements
RECURSIVE Distinct(_)
Distinct(s) ==
    IF s = <<>> THEN <<>>
    ELSE LET d == Distinct(SubSeq(s, 1, Len(s) - 1))
         IN IF Contains(d, s[Len(s)]) THEN d ELSE Append(d, s[Len(s)])

\* mutant of AdjOf: a repeated successor is listed once
AdjOfDistinct(items) ==
    Stored(LET keys == ItemKeys(items) IN
           [i \in keys |-> Distinct(SelectSeq(items[IndexOf(items, i)].next,
                                              LAMBDA t : t \in keys))])

\* adj[item_id]: the targets of item_id's next that are items of this procedure
AdjOf(items) ==
    Stored(LET keys == ItemKeys(items) IN
           [i \in keys |-> SelectSeq(items[IndexOf(items, i)].next, LAMBDA t : t \in keys)])

\* mutant of InDegreeOf: a target is counted once for each item that names it,
\* however often that item names it
InDegreeOfSources(items) ==
    Stored([i \in ItemKeys(items) |->
              Cardinality({k \in DOMAIN items : Contains(items[k].next, i)})])

\* in_degree[target] += 1 for every occurrence of target in some next list
InDegreeOf(items) ==
    LET occurrences == {kj \in (DOMAIN items) \X (1..MaxNextLen(items)) :
                           kj[2] <= Len(items[kj[1]].next)}
    IN Stored([i \in ItemKeys(items) |->
                 Cardinality({kj \in occurrences : items[kj[1]].next[kj[2]] = i})])

Max(x, y) == IF x >= y THEN x ELSE y

\* mutant of Relax: the successor is not pushed below its predecessor
RelaxNoIncrement(levels, u, v) == [levels EXCEPT ![v] = Max(levels[v], levels[u])]

\* levels[v] = max(levels[v], levels[u] + 1)
Relax(levels, u, v) == [levels EXCEPT ![v] = Max(levels[v], levels[u] + 1)]

\* mutant of InitialQueue: every item is seeded, whatever its in-degree
InitialQueueAll(items, in_degree) == ItemIdSeq(items)

\* deque([i for i in items if in_degree[i] == 0])
InitialQueue(items, in_degree) ==
    SelectSeq(ItemIdSeq(items), LAMBDA i : in_degree[i] = 0)

\* lines 64-74: the state the while loop starts in
LevelSetup(items) ==
    LET deg == InDegreeOf(items) IN
    [items     |-> items,
     adj       |-> AdjOf(items),
     in_degree |-> deg,
     levels    |-> Stored([i \in ItemKeys(items) |-> 0]),
     queue     |-> InitialQueue(items, deg),
     enqueued  |-> InitialQueue(items, deg),
     dequeued  |-> <<>>]

\* the body of "for v in adj[u]" for one v
ForBody(st, u, v) ==
    LET deg == st.in_degree[v] - 1 IN
    [st EXCEPT !.levels    = Relax(st.levels, u, v),
               !.in_degree = [@ EXCEPT ![v] = deg],
               !.queue     = IF deg = 0 THEN Append(@, v) ELSE @,
               !.enqueued  = IF deg = 0 THEN Append(@, v) ELSE @]

RECURSIVE ForAdj(_, _, _)
ForAdj(st, u, j) ==
    IF j > Len(st.adj[u]) THEN st
    ELSE ForAdj(ForBody(st, u, st.adj[u][j]), u, j + 1)

\* one iteration of "while queue": popleft, then the for loop
WhileBody(st) ==
    LET u == Head(st.queue) IN
    ForAdj([st EXCEPT !.queue = Tail(@), !.dequeued = Append(@, u)], u, 1)

RECURSIVE RunWhile(_)
RunWhile(st) == IF st.queue = <<>> THEN st ELSE RunWhile(WhileBody(st))

calculate_vertical_order(items) == RunWhile(LevelSetup(items)).levels

LevelStart ==
    /\ pc = "lv_start"
    /\ pc' = "lv_loop"
    /\ lv' = LevelSetup(lv.items)
    /\ UNCHANGED <<parseVars, layoutVars>>

WhileIter ==
    /\ pc = "lv_loop"
    /\ lv.queue # <<>>
    /\ lv' = WhileBody(lv)
    /\ pc' = pc
    /\ UNCHANGED <<parseVars, layoutVars>>

LevelReturn ==
    /\ pc = "lv_loop"
    /\ lv.queue = <<>>
    /\ pc' = "lv_done"
    /\ UNCHANGED <<lv, parseVars, layoutVars>>

-----------------------------------------------------------------------------
(* create_drawio_xml: layout constants (lines 105-113, 122-133, 178, 262) *)

x_start == 50
y_start == 50
item_width == 160
item_height == 60
vertical_spacing == 100
h_padding == 20
lane_header_height == 30
pool_header_height == 40
inter_pool_gap == 100
\* the 60 of pool_height and the 10 of y_pos
pool_bottom_margin == 60
node_top_margin == 10

MULTI_COLORS == <<"#fff2cc", "#d5e8d4", "#ffe6cc", "#e1d5e7", "#dae8fc",
                  "#f8cecc", "#fff9c4", "#c8e6c9", "#ffe0b2", "#e8daef">>
single_fill == "#ffffff"

\* identifiers of the two fixed cells, "0" and "1"
root_id == 0
layer_id == 1
\* uuid.uuid4(): every call returns an identifier never returned before; which
\* ones depends on the random state of the run (uuid_seed)
UuidSpace == 1000
Uuid(seed, count) == (seed + 1) * UuidSpace + count

\* item_id.split(":")[-1].replace("_", " "), tabulated for the identifiers in use
\* (none of them holds ":" or "_")
clean_name(item_id) == item_id
\* milestone_id.replace("_", " "), likewise
pool_label(milestone_id) == milestone_id

NoId == -1

BlankCell ==
    [kind |-> None, id |-> NoId, parent |-> NoId, value |-> None, tooltip |-> None,
     fill |-> None, x |-> 0, y |-> 0, width |-> 0, height |-> 0,
     source |-> NoId, target |-> NoId,
     \* the loop locals the cell was emitted under
     milestone |-> None, item |-> None, sh |-> None, lvl |-> 0, slot_index |-> 0,
     total |-> 0, lw |-> 0]

\* tooltips.get(key)
TooltipOf(key) == IF key \in DOMAIN tooltips THEN tooltips[key] ELSE None

-----------------------------------------------------------------------------
(* create_drawio_xml: per-procedure sizes (lines 145-178) *)

SetMax(S) == CHOOSE x \in S : \A y \in S : y <= x

RECURSIVE SumSeq(_)
SumSeq(s) == IF s = <<>> THEN 0 ELSE Head(s) + SumSeq(Tail(s))

\* position of a stakeholder name in lexicographic order
LanePos(name) == CHOOSE i \in DOMAIN LaneOrder : LaneOrder[i] = name

\* Python's str "<" on stakeholder names
StrLess(a, b) == LanePos(a) < LanePos(b)

RECURSIVE InsertSorted(_, _)
InsertSorted(s, x) ==
    IF s = <<>> THEN <<x>>
    ELSE IF StrLess(x, Head(s)) THEN <<x>> \o s
         ELSE <<Head(s)>> \o InsertSorted(Tail(s), x)

\* sorted(seq)
RECURSIVE Sorted(_)
Sorted(s) == IF s = <<>> THEN <<>> ELSE InsertSorted(Sorted(Tail(s)), Head(s))

\* the (item index, stakeholder index) pairs in iteration order
RECURSIVE CopySlots(_, _, _)
CopySlots(items, k, j) ==
    IF k > Len(items) THEN <<>>
    ELSE IF j > Len(items[k].stakeholders) THEN CopySlots(items, k + 1, 1)
         ELSE <<<<k, j>>>> \o CopySlots(items, k, j + 1)

\* lines 149-153: the distinct stakeholder names in first-seen order
RECURSIVE FirstSeen(_, _, _)
FirstSeen(items, slots, acc) ==
    IF slots = <<>> THEN acc
    ELSE LET sh == items[Head(slots)[1]].stakeholders[Head(slots)[2]]
         IN FirstSeen(items, Tail(slots), IF Contains(acc, sh) THEN acc ELSE Append(acc, sh))

\* mutant of all_stakeholders: the names stay in first-seen order
all_stakeholders_first_seen(items) == FirstSeen(items, CopySlots(items, 1, 1), <<>>)

\* line 154
all_stakeholders(items) == Sorted(FirstSeen(items, CopySlots(items, 1, 1), <<>>))

max_level(items, item_levels) == SetMax({item_levels[i] : i \in ItemKeys(items)})

\* mutant of lane_level_counts: only the first stakeholder of an item is counted
lane_level_counts_first(items, item_levels) ==
    LET cells == Range(all_stakeholders(items)) \X (0..max_level(items, item_levels))
    IN Stored([c \in cells |->
                 Cardinality({k \in DOMAIN items :
                                 /\ items[k].stakeholders[1] = c[1]
                                 /\ item_levels[items[k].id] = c[2]})])

\* lines 160-164: lane_level_counts[sh][lvl]; 0 stands for a key never created
lane_level_counts(items, item_levels) ==
    LET slots == Range(CopySlots(items, 1, 1))
        cells == Range(all_stakeholders(items)) \X (0..max_level(items, item_levels))
    IN Stored([c \in cells |->
                 Cardinality({kj \in slots :
                                 /\ items[kj[1]].stakeholders[kj[2]] = c[1]
                                 /\ item_levels[items[kj[1]].id] = c[2]})])

\* mutant of max_nodes_per_lane: the lane is sized by all its nodes, not by its
\* busiest rank
sum_nodes_per_lane(counts, sh) ==
    LET at == {d \in DOMAIN counts : d[1] = sh}
    IN SumSeq([n \in 1..Cardinality(at) |->
                 counts[CHOOSE d \in at : Cardinality({c \in at : c[2] < d[2]}) = n - 1]])

\* lines 166-169: max(lane_level_counts[sh].values()) if lane_level_counts[sh] else 1
max_nodes_per_lane(counts, sh) ==
    LET vals == {counts[c] : c \in {d \in DOMAIN counts : d[1] = sh}} \ {0}
    IN IF vals # {} THEN SetMax(vals) ELSE 1

node_slot_width == item_width + h_padding

\* lines 172-175
lane_widths(counts, lanes) ==
    Stored([sh \in Range(lanes) |-> max_nodes_per_lane(counts, sh) * node_slot_width + h_padding])

\* line 177: sum(lane_widths.values())
pool_width(widths, lanes) == SumSeq([i \in DOMAIN lanes |-> widths[lanes[i]]])

\* mutant of pool_height: the pool ends where the ranks end
pool_height_tight(top_level) ==
    (top_level + 1) * vertical_spacing

\* line 178
pool_height(top_level) ==
    (top_level + 1) * vertical_spacing + lane_header_height + pool_bottom_margin

\* int(x): truncation towards zero of the quotient num / den, den > 0
IntOfQuotient(num, den) ==
    IF num >= 0 THEN num \div den ELSE -((-num) \div den)

\* mutant of node_x: every occupant of a cell is centred in the first slot
node_x_first_slot(lw, total, slot_index) ==
    IntOfQuotient(lw - item_width * total, 2 * total)

\* lines 260-261 and 286 in exact arithmetic:
\* int(lw/total * slot_index + (lw/total - item_width) / 2)
node_x(lw, total, slot_index) ==
    IntOfQuotient(2 * lw * slot_index + lw - item_width * total, 2 * total)

\* lines 262 and 287
node_y(lvl) == lane_header_height + node_top_margin + lvl * vertical_spacing

-----------------------------------------------------------------------------
(* create_drawio_xml: emission (lines 92-102, 183-328) *)

\* the two fixed cells, id "0" and id "1"
RootCells ==
    <<[BlankCell EXCEPT !.kind = "root", !.id = root_id],
      [BlankCell EXCEPT !.kind = "root", !.id = layer_id, !.parent = root_id]>>

\* mutant of PoolCell: every pool is put at x_start
PoolCellAtStart(env, pool_id, at_x) ==
    [BlankCell EXCEPT !.kind = "pool", !.id = pool_id, !.parent = layer_id,
                      !.value = pool_label(env.milestone),
                      !.tooltip = TooltipOf(env.milestone),
                      !.x = x_start, !.y = y_start,
                      !.width = pool_width(env.widths, env.lanes),
                      !.height = pool_height(env.top_level),
                      !.milestone = env.milestone]

\* lines 183-206
PoolCell(env, pool_id, at_x) ==
    [BlankCell EXCEPT !.kind = "pool", !.id = pool_id, !.parent = layer_id,
                      !.value = pool_label(env.milestone),
                      !.tooltip = TooltipOf(env.milestone),
                      !.x = at_x, !.y = y_start,
                      !.width = pool_width(env.widths, env.lanes),
                      !.height = pool_height(env.top_level),
                      !.milestone = env.milestone]

\* lane_ids[sh_name]: the i-th lane takes the i-th identifier after the pool's
LaneIdOf(lanes, sh, seed, first_count) ==
    Uuid(seed, first_count + (CHOOSE i \in DOMAIN lanes : lanes[i] = sh) - 1)

\* lines 213-233: the lane cells from the i-th on, acc_lane_x being the running x
RECURSIVE LaneCells(_, _, _, _)
LaneCells(env, pool_id, i, acc_lane_x) ==
    IF i > Len(env.lanes) THEN <<>>
    ELSE LET sh_name == env.lanes[i]
             lw == env.widths[sh_name]
             cell == [BlankCell EXCEPT
                        !.kind = "lane",
                        !.id = LaneIdOf(env.lanes, sh_name, env.seed, env.lane_count),
                        !.parent = pool_id, !.value = sh_name,
                        !.x = acc_lane_x, !.y = pool_header_height,
                        !.width = lw,
                        !.height = pool_height(env.top_level) - pool_header_height,
                        !.milestone = env.milestone, !.sh = sh_name, !.lw = lw]
         IN <<cell>> \o LaneCells(env, pool_id, i + 1, acc_lane_x + lw)

\* d[key] = value on an insertion-ordered dict held as a sequence of entries
DictSet(d, key, entry) ==
    IF IndexOf(d, key) = 0 THEN Append(d, entry)
    ELSE [d EXCEPT ![IndexOf(d, key)] = entry]

\* lines 247-250: bind a colour the first time a multi-stakeholder item is met
BindColor(ctx, item) ==
    IF Len(item.stakeholders) > 1 /\ IndexOf(ctx.multi_item_color, item.id) = 0
    THEN [ctx EXCEPT
            !.multi_item_color =
                Append(@, [id |-> item.id,
                           color |-> MULTI_COLORS[(ctx.color_counter % Len(MULTI_COLORS)) + 1]]),
            !.color_counter = @ + 1]
    ELSE ctx

\* line 252: id_map.setdefault(item_id, {})
SetDefault(ctx, item) ==
    IF IndexOf(ctx.id_map, item.id) = 0
    THEN [ctx EXCEPT !.id_map = Append(@, [id |-> item.id, copies |-> <<>>])]
    ELSE ctx

\* line 268
FillColor(ctx, item) ==
    IF Len(item.stakeholders) > 1
    THEN ctx.multi_item_color[IndexOf(ctx.multi_item_color, item.id)].color
    ELSE single_fill

\* lines 255-291: the copy of item k in the lane of its j-th stakeholder
PlaceCopy(ctx, env, k, j) ==
    LET item       == env.items[k]
        sh_name    == item.stakeholders[j]
        lvl        == env.levels[item.id]
        lw         == env.widths[sh_name]
        slot_index == ctx.placed[<<sh_name, lvl>>]
        total      == env.counts[<<sh_name, lvl>>]
        node_uuid  == Uuid(env.seed, ctx.uuid_count)
        m          == IndexOf(ctx.id_map, item.id)
        cell == [BlankCell EXCEPT
                   !.kind = "node", !.id = node_uuid,
                   !.parent = LaneIdOf(env.lanes, sh_name, env.seed, env.lane_count),
                   !.value = clean_name(item.id), !.tooltip = TooltipOf(item.id),
                   !.fill = FillColor(ctx, item),
                   !.x = node_x(lw, total, slot_index), !.y = node_y(lvl),
                   !.width = item_width, !.height = item_height,
                   !.milestone = env.milestone, !.item = item.id, !.sh = sh_name,
                   !.lvl = lvl, !.slot_index = slot_index, !.total = total, !.lw = lw]
    IN [ctx EXCEPT
          !.placed[<<sh_name, lvl>>] = @ + 1,
          !.uuid_count = @ + 1,
          !.id_map[m].copies = DictSet(@, sh_name, [id |-> sh_name, uuid |-> node_uuid]),
          !.cells = Append(@, cell)]

RECURSIVE PlaceCopies(_, _, _, _)
PlaceCopies(ctx, env, k, j) ==
    IF j > Len(env.items[k].stakeholders) THEN ctx
    ELSE PlaceCopies(PlaceCopy(ctx, env, k, j), env, k, j + 1)

\* the item loop of lines 240-291, for the mutant below
RECURSIVE PlaceItemsFrom(_, _, _)
PlaceItemsFrom(ctx, env, k) ==
    IF k > Len(env.items) THEN ctx
    ELSE PlaceItemsFrom(
            PlaceCopies(SetDefault(BindColor(ctx, env.items[k]), env.items[k]), env, k, 1),
            env, k + 1)

\* mutant of PlaceItems: the palette cursor depends on the random state of the
\* run (as a colour picked by a salted hash would)
PlaceItemsSaltedColour(ctx, env, k) ==
    PlaceItemsFrom([ctx EXCEPT !.color_counter = @ + env.seed], env, k)

\* lines 240-291: the items from the k-th on
RECURSIVE PlaceItems(_, _, _)
PlaceItems(ctx, env, k) ==
    IF k > Len(env.items) THEN ctx
    ELSE PlaceItems(
            PlaceCopies(SetDefault(BindColor(ctx, env.items[k]), env.items[k]), env, k, 1),
            env, k + 1)

\* lines 315-316: every (source copy, target copy) pair, source-major
CopyPairs(src_copies, tgt_copies) ==
    [n \in 1..(Len(src_copies) * Len(tgt_copies)) |->
        <<src_copies[((n - 1) \div Len(tgt_copies)) + 1].uuid,
          tgt_copies[((n - 1) % Len(tgt_copies)) + 1].uuid>>]

\* mutant of OccurrencePairs: the "target_id in id_map" test of line 311 is left
\* out, a target that is no item gets an edge to a node that does not exist
OccurrencePairsUnchecked(idm, item_id, target_id) ==
    IF IndexOf(idm, item_id) = 0
    THEN <<>>
    ELSE IF IndexOf(idm, target_id) = 0
         THEN [n \in DOMAIN idm[IndexOf(idm, item_id)].copies |->
                 <<idm[IndexOf(idm, item_id)].copies[n].uuid, NoId>>]
         ELSE CopyPairs(idm[IndexOf(idm, item_id)].copies,
                        idm[IndexOf(idm, target_id)].copies)

\* lines 308-316: the pairs one hasNext occurrence yields
OccurrencePairs(idm, item_id, target_id) ==
    IF IndexOf(idm, item_id) = 0 \/ IndexOf(idm, target_id) = 0
    THEN <<>>
    ELSE CopyPairs(idm[IndexOf(idm, item_id)].copies, idm[IndexOf(idm, target_id)].copies)

\* mutant of EdgePairs: like the ranking, the edge pass passes over a target
\* that is no item of the source's procedure
RECURSIVE EdgePairsWithin(_, _, _, _, _)
EdgePairsWithin(ds, idm, p, k, j) ==
    IF p > Len(ds) THEN <<>>
    ELSE IF k > Len(ds[p].items) THEN EdgePairsWithin(ds, idm, p + 1, 1, 1)
    ELSE IF j > Len(ds[p].items[k].next) THEN EdgePairsWithin(ds, idm, p, k + 1, 1)
    ELSE LET pairs == IF IndexOf(ds[p].items, ds[p].items[k].next[j]) = 0 THEN <<>>
                      ELSE OccurrencePairs(idm, ds[p].items[k].id, ds[p].items[k].next[j])
         IN [n \in DOMAIN pairs |-> <<pairs[n][1], pairs[n][2], <<p, k, j>>>>]
                \o EdgePairsWithin(ds, idm, p, k, j + 1)

\* lines 306-316: all pairs from occurrence (p, k, j) on, each with its occurrence
RECURSIVE EdgePairs(_, _, _, _, _)
EdgePairs(ds, idm, p, k, j) ==
    IF p > Len(ds) THEN <<>>
    ELSE IF k > Len(ds[p].items) THEN EdgePairs(ds, idm, p + 1, 1, 1)
    ELSE IF j > Len(ds[p].items[k].next) THEN EdgePairs(ds, idm, p, k + 1, 1)
    ELSE LET pairs == OccurrencePairs(idm, ds[p].items[k].id, ds[p].items[k].next[j])
         IN [n \in DOMAIN pairs |-> <<pairs[n][1], pairs[n][2], <<p, k, j>>>>]
                \o EdgePairs(ds, idm, p, k, j + 1)

\* lines 317-328
EdgeCells(ds, idm, seed, first_count) ==
    LET pairs == EdgePairs(ds, idm, 1, 1, 1)
    IN [n \in DOMAIN pairs |->
          [BlankCell EXCEPT !.kind = "edge", !.id = Uuid(seed, first_count + n - 1),
                            !.parent = layer_id, !.value = "",
                            !.source = pairs[n][1], !.target = pairs[n][2],
                            !.milestone = ds[pairs[n][3][1]].id,
                            !.item = ds[pairs[n][3][1]].items[pairs[n][3][2]].id,
                            !.slot_index = pairs[n][3][3]]]

-----------------------------------------------------------------------------
(* create_drawio_xml: the steps *)

UuidSeeds == {0, 1}

\* lines 92-138: the document skeleton and the initial locals
BeginDrawio ==
    /\ pc = "parsed"
    /\ pc' = "pools"
    /\ \E seed \in UuidSeeds : uuid_seed' = seed
    /\ uuid_count' = 1
    /\ doc' = RootCells
    /\ id_map' = <<>>
    /\ multi_item_color' = <<>>
    /\ color_counter' = 0
    /\ current_x' = x_start
    /\ milestone_idx' = 0
    \* parse_data has returned: only data_struct and tooltips are passed on
    /\ item_to_milestone' = [i \in ItemIds |-> None]
    /\ nread' = 0
    /\ last' = NoTriple
    /\ first_owner' = [i \in ItemIds |-> None]
    /\ dropped_refs' = {}
    /\ accepted' = [i \in ItemIds |-> {}]
    /\ UNCHANGED <<data_struct, tooltips, lv, earlier>>

\* mutant of SkipProcedure: the procedure without items still takes its gap
SkipProcedureAdvancing ==
    /\ pc = "pools"
    /\ milestone_idx < Len(data_struct)
    /\ data_struct[milestone_idx + 1].items = <<>>
    /\ milestone_idx' = milestone_idx + 1
    /\ current_x' = current_x + inter_pool_gap
    /\ pc' = pc
    /\ UNCHANGED <<parseVars, lv, color_counter, multi_item_color, id_map,
                   uuid_seed, uuid_count, doc, earlier>>

\* lines 140-143: a procedure without items is skipped
SkipProcedure ==
    /\ pc = "pools"
    /\ milestone_idx < Len(data_struct)
    /\ data_struct[milestone_idx + 1].items = <<>>
    /\ milestone_idx' = milestone_idx + 1
    /\ pc' = pc
    /\ UNCHANGED <<parseVars, lv, current_x, color_counter, multi_item_color, id_map,
                   uuid_seed, uuid_count, doc, earlier>>

\* lines 140-293: one iteration of the pool loop
LayoutProcedure ==
    /\ pc = "pools"
    /\ milestone_idx < Len(data_struct)
    /\ data_struct[milestone_idx + 1].items # <<>>
    /\ LET milestone_id == data_struct[milestone_idx + 1].id
           items        == data_struct[milestone_idx + 1].items
           item_levels  == calculate_vertical_order(items)
           lanes        == all_stakeholders(items)
           counts       == lane_level_counts(items, item_levels)
           pool_id      == Uuid(uuid_seed, uuid_count)
           env == [milestone |-> milestone_id, items |-> items, levels |-> item_levels,
                   top_level |-> max_level(items, item_levels),
                   lanes |-> lanes, counts |-> counts,
                   widths |-> lane_widths(counts, lanes),
                   seed |-> uuid_seed, lane_count |-> uuid_count + 1]
           ctx0 == [placed |-> Stored([c \in DOMAIN counts |-> 0]),
                    cells |-> <<>>,
                    id_map |-> id_map,
                    multi_item_color |-> multi_item_color,
                    color_counter |-> color_counter,
                    uuid_count |-> uuid_count + 1 + Len(lanes)]
           ctx == PlaceItems(ctx0, env, 1)
       IN /\ doc' = doc \o <<PoolCell(env, pool_id, current_x)>>
                        \o LaneCells(env, pool_id, 1, 0)
                        \o ctx.cells
          /\ id_map' = ctx.id_map
          /\ multi_item_color' = ctx.multi_item_color
          /\ color_counter' = ctx.color_counter
          /\ uuid_count' = ctx.uuid_count
          /\ current_x' = current_x + pool_width(env.widths, lanes) + inter_pool_gap
    /\ milestone_idx' = milestone_idx + 1
    /\ pc' = pc
    /\ UNCHANGED <<parseVars, lv, uuid_seed, earlier>>

\* lines 299-328: the global edge pass
EmitEdges ==
    /\ pc = "pools"
    /\ milestone_idx = Len(data_struct)
    /\ LET cells == EdgeCells(data_struct, id_map, uuid_seed, uuid_count)
       IN /\ doc' = doc \o cells
          /\ uuid_count' = uuid_count + Len(cells)
    /\ pc' = "done"
    /\ UNCHANGED <<parseVars, lv, milestone_idx, current_x, color_counter,
                   multi_item_color, id_map, uuid_seed, earlier>>

CreateDrawioXml ==
    \/ BeginDrawio
    \/ SkipProcedure
    \/ LayoutProcedure
    \/ EmitEdges

\* the state of parse_data's locals before the loop (lines 13-16)
ParseIdle ==
    /\ data_struct = <<>>
    /\ item_to_milestone = [i \in ItemIds |-> None]
    /\ tooltips = [s \in TipSubjects |-> None]
    /\ nread = 0
    /\ last = NoTriple
    /\ first_owner = [i \in ItemIds |-> None]
    /\ dropped_refs = {}
    /\ accepted = [i \in ItemIds |-> {}]

\* no call of create_drawio_xml has returned yet
NoRun == <<>>

\* the state of create_drawio_xml's locals before it is called
LayoutIdle ==
    /\ milestone_idx = 0
    /\ current_x = 0
    /\ color_counter = 0
    /\ multi_item_color = <<>>
    /\ id_map = <<>>
    /\ uuid_seed = 0
    /\ uuid_count = 0
    /\ doc = <<>>
    /\ earlier = NoRun

Init ==
    /\ pc = "parse"
    /\ ParseIdle
    /\ lv = <<>>
    /\ LayoutIdle

ReadTriple ==
    \/ \E subj \in TipSubjects, obj \in TipTexts : SourceText(subj, obj)
    \/ \E subj \in ProcIds, obj \in {"Procedure", "procedure"} : TypeTriple(subj, obj)
    \/ \E subj \in ProcIds, obj \in ItemIds : HasSequencedItem(subj, obj)
    \/ \E subj \in ItemIds, obj \in StakeholderNames : HasStakeholder(subj, obj)
    \/ \E subj \in ItemIds, obj \in ItemIds : HasNext(subj, obj)

Next ==
    \/ ReadTriple
    \/ Finalize
    \/ CreateDrawioXml

Spec == Init /\ [][Next]_vars

-----------------------------------------------------------------------------
(* SpecLevel: calculate_vertical_order on the items of one procedure *)

LevelIds == <<"a", "b", "c", "d", "e">>
\* a hasNext target that is no item of the procedure
Outside == "x"

LevelEdgePairs(n) == {LevelIds[k] : k \in 1..n} \X ({LevelIds[k] : k \in 1..n} \cup {Outside})

\* the next list of src after the hasNext triples es, in stream order
RECURSIVE NextOf(_, _)
NextOf(es, src) ==
    IF es = <<>> THEN <<>>
    ELSE IF Head(es)[1] = src
         THEN <<Head(es)[2]>> \o NextOf(Tail(es), src)
         ELSE NextOf(Tail(es), src)

LevelItems(n, es) ==
    [k \in 1..n |-> [id |-> LevelIds[k], stakeholders |-> <<Unassigned>>,
                     next |-> NextOf(es, LevelIds[k])]]

InitLevel ==
    /\ pc = "lv_start"
    /\ ParseIdle
    /\ LayoutIdle
    /\ \E n \in 1..MaxLevelItems :
         \E m \in 0..(MaxLevelSize - n) :
            \E es \in [1..m -> LevelEdgePairs(n)] :
               lv = [items |-> LevelItems(n, es)]

NextLevel ==
    \/ LevelStart
    \/ WhileIter
    \/ LevelReturn

SpecLevel == InitLevel /\ [][NextLevel]_vars

\* the interpreter keeps executing the function it has entered
SpecLevelFair == SpecLevel /\ WF_vars(NextLevel)

-----------------------------------------------------------------------------
(* SpecLayout: create_drawio_xml on graphs parse_data can return *)

LayoutIds == <<"a", "b", "c", "d", "e">>
LayoutLanes == {"A", "B"}
\* the items of the second procedure: none, an item of its own, or an item the
\* first procedure holds too (hasSequencedItem under both procedures)
SecondItems == {<<>>, <<"z">>, <<"a">>}

\* the stakeholder lists parse_data can leave: non-empty, no name twice
ShLists ==
    {sl \in UNION {[1..m -> LayoutLanes] : m \in 1..Cardinality(LayoutLanes)} :
        \A i \in DOMAIN sl, j \in DOMAIN sl : i # j => sl[i] # sl[j]}

\* the next list of the entry numbered e after the hasNext triples es
RECURSIVE EntryNext(_, _)
EntryNext(es, e) ==
    IF es = <<>> THEN <<>>
    ELSE IF Head(es)[1] = e
         THEN <<Head(es)[2]>> \o EntryNext(Tail(es), e)
         ELSE EntryNext(Tail(es), e)

\* entries 1..n1 are the first procedure's items, the rest the second's
LayoutGraph(n1, second, shs, es) ==
    <<[id |-> "P1",
       items |-> [k \in 1..n1 |->
                    [id |-> LayoutIds[k], stakeholders |-> shs[k], next |-> EntryNext(es, k)]]],
      [id |-> "P2",
       items |-> [k \in 1..Len(second) |->
                    [id |-> second[k], stakeholders |-> shs[n1 + k],
                     next |-> EntryNext(es, n1 + k)]]]>>

InitLayout ==
    /\ pc = "parsed"
    /\ item_to_milestone = [i \in ItemIds |-> None]
    /\ nread = 0
    /\ last = NoTriple
    /\ first_owner = [i \in ItemIds |-> None]
    /\ dropped_refs = {}
    /\ accepted = [i \in ItemIds |-> {}]
    /\ lv = <<>>
    /\ LayoutIdle
    /\ tooltips = [s \in TipSubjects |-> "t"]
    /\ \E n1 \in 0..MaxPoolItems, second \in SecondItems :
         LET n == n1 + Len(second)
             targets == {LayoutIds[k] : k \in 1..n1} \cup Range(second) \cup {Outside}
         IN \E m \in 0..(MaxGraphSize - n) :
               \E shs \in [1..n -> ShLists], es \in [1..m -> (1..n) \X targets] :
                  /\ n + SumSeq([k \in 1..n |-> Len(shs[k]) - 1]) + m <= MaxGraphSize
                  /\ data_struct = LayoutGraph(n1, second, shs, es)

SpecLayout == InitLayout /\ [][CreateDrawioXml]_vars

-----------------------------------------------------------------------------
(* SpecRerun: create_drawio_xml called a second time on the same arguments *)

\* what a completed call leaves behind, with the arguments it was given
Returned ==
    [doc |-> doc, multi_item_color |-> multi_item_color,
     structured_data |-> data_struct, uuid_seed |-> uuid_seed]

\* the caller keeps what the first call produced and calls again with the same
\* structured_data and tooltips
Rerun ==
    /\ pc = "done"
    /\ earlier = NoRun
    /\ earlier' = Returned
    /\ pc' = "parsed"
    /\ UNCHANGED <<parseVars, lv, milestone_idx, current_x, color_counter,
                   multi_item_color, id_map, uuid_seed, uuid_count, doc>>

NextRerun ==
    \/ CreateDrawioXml
    \/ Rerun

SpecRerun == InitLayout /\ [][NextRerun]_vars

-----------------------------------------------------------------------------
(* SpecSkip: create_drawio_xml called again without the empty procedures *)

WithoutEmpty(ds) == SelectSeq(ds, LAMBDA proc : proc.items # <<>>)

\* the caller keeps what the first call produced, removes the procedures that
\* have no items from structured_data and calls again
RerunWithoutEmpty ==
    /\ pc = "done"
    /\ earlier = NoRun
    /\ WithoutEmpty(data_struct) # data_struct
    /\ earlier' = Returned
    /\ data_struct' = WithoutEmpty(data_struct)
    /\ pc' = "parsed"
    /\ UNCHANGED <<item_to_milestone, tooltips, nread, last, first_owner, dropped_refs,
                   accepted, lv, milestone_idx, current_x, color_counter,
                   multi_item_color, id_map, uuid_seed, uuid_count, doc>>

NextSkip ==
    \/ CreateDrawioXml
    \/ RerunWithoutEmpty

SpecSkip == InitLayout /\ [][NextSkip]_vars

-----------------------------------------------------------------------------
(* SpecCross: create_drawio_xml called again without the hasNext references
   that lead from one procedure into another *)

\* target is an item of the graph ds but not of its procedure p
LeadsAcross(ds, p, target) ==
    /\ IndexOf(ds[p].items, target) = 0
    /\ \E q \in DOMAIN ds : IndexOf(ds[q].items, target) # 0

WithoutCross(ds) ==
    [p \in DOMAIN ds |->
        [ds[p] EXCEPT !.items =
            [k \in DOMAIN ds[p].items |->
                [ds[p].items[k] EXCEPT !.next =
                    SelectSeq(@, LAMBDA t : ~LeadsAcross(ds, p, t))]]]]

\* the caller keeps what the first call produced, removes the references that
\* lead across procedures from structured_data and calls again
RerunWithoutCross ==
    /\ pc = "done"
    /\ earlier = NoRun
    /\ WithoutCross(data_struct) # data_struct
    /\ earlier' = Returned
    /\ data_struct' = WithoutCross(data_struct)
    /\ pc' = "parsed"
    /\ UNCHANGED <<item_to_milestone, tooltips, nread, last, first_owner, dropped_refs,
                   accepted, lv, milestone_idx, current_x, color_counter,
                   multi_item_color, id_map, uuid_seed, uuid_count, doc>>

NextCross ==
    \/ CreateDrawioXml
    \/ RerunWithoutCross

SpecCross == InitLayout /\ [][NextCross]_vars

-----------------------------------------------------------------------------
(* SpecPalette: create_drawio_xml on graphs with more multi-stakeholder items
   than MULTI_COLORS has colours *)

PaletteIds == <<"i01", "i02", "i03", "i04", "i05", "i06", "i07", "i08",
                "i09", "i10", "i11", "i12", "i13", "i14", "i15", "i16">>

PaletteProcs == <<"Q1", "Q2", "Q3", "Q4", "Q5", "Q6", "Q7", "Q8">>

\* how a further procedure holds the first item again: not at all, with no
\* stakeholder given under it (the fallback's ["Unassigned"]), or with two
Repeats == {"none", "single", "multi"}

\* the item numbered single has one stakeholder, every other item two
PaletteEntry(k, single) ==
    [id |-> PaletteIds[k],
     stakeholders |-> IF k = single THEN <<"A">> ELSE <<"A", "B">>,
     next |-> <<>>]

\* the procedures that hold items 1..n, MaxPoolItems to a procedure
PaletteFull(n, single) ==
    [q \in 1..((n + MaxPoolItems - 1) \div MaxPoolItems) |->
        [id |-> PaletteProcs[q],
         items |-> [k \in 1..(IF q * MaxPoolItems <= n THEN MaxPoolItems
                              ELSE n - (q - 1) * MaxPoolItems) |->
                      PaletteEntry((q - 1) * MaxPoolItems + k, single)]]]

\* a procedure without items first when empty, then the procedures of items
\* 1..n, then the procedure that holds the first item again
PaletteGraph(n, single, repeat, empty) ==
    (IF empty THEN <<[id |-> "P1", items |-> <<>>]>> ELSE <<>>)
    \o PaletteFull(n, single)
    \o (CASE repeat = "none"   -> <<>>
         [] repeat = "single" ->
              <<[id |-> "P2",
                 items |-> <<[id |-> PaletteIds[1], stakeholders |-> <<Unassigned>>,
                              next |-> <<>>]>>]>>
         [] repeat = "multi"  ->
              <<[id |-> "P2",
                 items |-> <<[id |-> PaletteIds[1], stakeholders |-> <<"B", "A">>,
                              next |-> <<>>]>>]>>)

InitPalette ==
    /\ pc = "parsed"
    /\ item_to_milestone = [i \in ItemIds |-> None]
    /\ nread = 0
    /\ last = NoTriple
    /\ first_owner = [i \in ItemIds |-> None]
    /\ dropped_refs = {}
    /\ accepted = [i \in ItemIds |-> {}]
    /\ lv = <<>>
    /\ LayoutIdle
    /\ tooltips = [s \in TipSubjects |-> "t"]
    /\ \E n \in 1..MaxPaletteItems, repeat \in Repeats, empty \in BOOLEAN :
         \E single \in 0..n :
            data_struct = PaletteGraph(n, single, repeat, empty)

SpecPalette == InitPalette /\ [][CreateDrawioXml]_vars

-----------------------------------------------------------------------------
(* Graph notions the claims about calculate_vertical_order are stated in *)

\* the hasNext edges whose source and target are both items of the procedure
WithinEdges(items) ==
    {e \in ItemKeys(items) \X ItemKeys(items) :
        Contains(items[IndexOf(items, e[1])].next, e[2])}

RECURSIVE PathsUpTo(_, _)
PathsUpTo(R, k) ==
    IF k <= 1 THEN R
    ELSE LET T == PathsUpTo(R, k - 1)
         IN T \cup {ac \in {<<t[1], r[2]>> : t \in T, r \in R} :
                       \E t \in T, r \in R : t[2] = r[1] /\ ac = <<t[1], r[2]>>}

\* u reaches v along one or more within-procedure edges
Reaches(items) == PathsUpTo(WithinEdges(items), Len(items))

OnCycle(items, i) == <<i, i>> \in Reaches(items)

Acyclic(items) == \A i \in ItemKeys(items) : ~OnCycle(items, i)

-----------------------------------------------------------------------------
(* C1 *)

\* C1: when the within-procedure hasNext graph of the procedure is acyclic, the
\* ranks calculate_vertical_order returns satisfy rank[v] > rank[u] for every
\* edge u -> v between two items of the procedure.
C1_LevelingCorrect ==
    (pc = "lv_done" /\ Acyclic(lv.items)) =>
        /\ lv.levels = calculate_vertical_order(lv.items)
        /\ \A e \in WithinEdges(lv.items) : lv.levels[e[2]] > lv.levels[e[1]]

\* an acyclic procedure with a chain u -> v -> w has been ranked
C1_Witness ==
    /\ pc = "lv_done"
    /\ Acyclic(lv.items)
    /\ \E e \in WithinEdges(lv.items), f \in WithinEdges(lv.items) : e[2] = f[1]

-----------------------------------------------------------------------------
(* C2 *)

NeverZero(i) == ~Contains(lv.enqueued, i)

DequeuedPreds(i) == {u \in Range(lv.dequeued) : <<u, i>> \in WithinEdges(lv.items)}

-----------------------------------------------------------------------------
(* C3 *)

\* the procedures whose item map holds item i
HoldersOf(i) == {p \in DOMAIN data_struct : IndexOf(data_struct[p].items, i) # 0}

\* C3 as claimed: after parse_data every item is in the item map of exactly one
\* procedure, the subject of the first hasSequencedItem triple naming it, and
\* that procedure is the owner hasStakeholder/hasNext triples are filed under; an
\* item no hasSequencedItem triple named is in no item map.
C3_SingleFirstOwner ==
    pc = "parsed" =>
        \A i \in ItemIds :
            IF first_owner[i] = None
            THEN HoldersOf(i) = {}
            ELSE /\ HoldersOf(i) = {IndexOf(data_struct, first_owner[i])}
                 /\ item_to_milestone[i] = first_owner[i]

-----------------------------------------------------------------------------
(* C4 *)

\* the loop iteration reads a hasStakeholder/hasNext triple whose subject no
\* earlier hasSequencedItem triple named
DroppedStep ==
    /\ nread' = nread + 1
    /\ last'.pred \in {"hasstakeholder", "hasnext"}
    /\ first_owner[last'.subj] = None

\* the loop iteration reads the first hasSequencedItem triple naming an item
\* that earlier hasStakeholder/hasNext triples referred to
LateSequencedStep ==
    /\ nread' = nread + 1
    /\ last'.pred = "hassequenceditem"
    /\ first_owner[last'.obj] = None
    /\ last'.obj \in dropped_refs

\* C4: a hasStakeholder/hasNext triple whose subject no earlier hasSequencedItem
\* triple named leaves the procedure graph as it was and the loop goes on; the
\* hasSequencedItem triple that later names the subject creates it with no
\* stakeholder and no successor.
C4_DroppedReference ==
    [][/\ DroppedStep => (data_struct' = data_struct /\ pc' = "parse")
       /\ LateSequencedStep =>
             LET p == IndexOf(data_struct', last'.subj)
                 k == IndexOf(data_struct'[p].items, last'.obj)
             IN /\ data_struct'[p].items[k].stakeholders = <<>>
                /\ data_struct'[p].items[k].next = <<>>]_vars

\* parse_data has returned; a reference to an item was dropped, the item was
\* sequenced later and holds nothing but the fallback
C4_Witness ==
    /\ pc = "parsed"
    /\ \E i \in dropped_refs :
          /\ first_owner[i] # None
          /\ \A p \in HoldersOf(i) :
                LET e == data_struct[p].items[IndexOf(data_struct[p].items, i)]
                IN e.stakeholders = <<Unassigned>> /\ e.next = <<>>

-----------------------------------------------------------------------------
(* C5 *)

NodesOf(i) == {n \in DOMAIN doc : doc[n].kind = "node" /\ doc[n].item = i}

NodesOfEntry(milestone_id, i) == {n \in NodesOf(i) : doc[n].milestone = milestone_id}

\* the lane cell a node cell names as its parent
LaneOfNode(n) == CHOOSE m \in DOMAIN doc : doc[m].kind = "lane" /\ doc[m].id = doc[n].parent

\* C5 as claimed: in the graph parse_data returns every item has a non-empty
\* stakeholder list, the list is <<Unassigned>> exactly when no name other than
\* Unassigned was accepted for the item, and such an item has one node in the
\* whole document, in a lane named Unassigned.
C5_UnassignedFallback ==
    /\ pc = "parsed" =>
          \A p \in DOMAIN data_struct : \A k \in DOMAIN data_struct[p].items :
             LET e == data_struct[p].items[k]
             IN /\ e.stakeholders # <<>>
                /\ e.stakeholders = <<Unassigned>> <=> accepted[e.id] \subseteq {Unassigned}
    /\ pc = "done" =>
          \A p \in DOMAIN data_struct : \A k \in DOMAIN data_struct[p].items :
             LET e == data_struct[p].items[k]
             IN e.stakeholders = <<Unassigned>> =>
                   /\ Cardinality(NodesOf(e.id)) = 1
                   /\ \A n \in NodesOf(e.id) : doc[LaneOfNode(n)].value = Unassigned

\* what the code keeps of C5: the statement read per entry of an item map. The
\* fallback turns an empty list into <<Unassigned>> and leaves every other list
\* alone; an entry with <<Unassigned>> has one node in its procedure's pool, in
\* a lane named Unassigned.
C5_EntryFallback ==
    /\ [][(pc = "parse" /\ pc' = "parsed") =>
             /\ Len(data_struct') = Len(data_struct)
             /\ \A p \in DOMAIN data_struct :
                   /\ Len(data_struct'[p].items) = Len(data_struct[p].items)
                   /\ \A k \in DOMAIN data_struct[p].items :
                         LET before == data_struct[p].items[k].stakeholders
                             after  == data_struct'[p].items[k].stakeholders
                         IN /\ after # <<>>
                            /\ after = <<Unassigned>> <=> Range(before) \subseteq {Unassigned}
                            /\ before # <<>> => after = before]_vars
    /\ [](pc = "done" =>
             \A p \in DOMAIN data_struct : \A k \in DOMAIN data_struct[p].items :
                LET e == data_struct[p].items[k]
                    nodes == NodesOfEntry(data_struct[p].id, e.id)
                IN e.stakeholders = <<Unassigned>> =>
                      /\ Cardinality(nodes) = 1
                      /\ \A n \in nodes : doc[LaneOfNode(n)].value = Unassigned)

\* the document is complete and holds the single node of an item that no
\* hasStakeholder triple was accepted for
C5_Witness ==
    /\ pc = "done"
    /\ \E p \in DOMAIN data_struct : \E k \in DOMAIN data_struct[p].items :
          /\ data_struct[p].items[k].stakeholders = <<Unassigned>>
          /\ Cardinality(HoldersOf(data_struct[p].items[k].id)) = 1
          /\ Cardinality(NodesOf(data_struct[p].items[k].id)) = 1

-----------------------------------------------------------------------------
(* C6 *)

\* some cell of the given kind, emitted before position n, has identifier id
EmittedBefore(n, kind, id) ==
    \E m \in 1..(n - 1) : doc[m].kind = kind /\ doc[m].id = id

\* the hasNext occurrences (procedure, item, index in next) of the graph
Occurrences ==
    UNION {UNION {{<<p, k, j>> : j \in DOMAIN data_struct[p].items[k].next} :
                    k \in DOMAIN data_struct[p].items} :
             p \in DOMAIN data_struct}

SourceOf(o) == data_struct[o[1]].items[o[2]].id

TargetOf(o) == data_struct[o[1]].items[o[2]].next[o[3]]

\* the edge cells the occurrence gave rise to
EdgesOf(o) ==
    {n \in DOMAIN doc : /\ doc[n].kind = "edge"
                         /\ doc[n].milestone = data_struct[o[1]].id
                         /\ doc[n].item = SourceOf(o)
                         /\ doc[n].slot_index = o[3]}

\* C6: every identifier a cell of the document refers to is the identifier of a
\* cell emitted before it: an edge's source and target are nodes, a node's
\* parent is a lane, a lane's parent is a pool, a pool's parent is the layer
\* cell; a hasNext occurrence whose target is no item of any procedure has no
\* edge.
C6_ReferencesResolve ==
    /\ \A n \in DOMAIN doc :
          /\ doc[n].kind = "edge" => /\ EmittedBefore(n, "node", doc[n].source)
                                      /\ EmittedBefore(n, "node", doc[n].target)
          /\ doc[n].kind = "node" => EmittedBefore(n, "lane", doc[n].parent)
          /\ doc[n].kind = "lane" => EmittedBefore(n, "pool", doc[n].parent)
          /\ doc[n].kind = "pool" => EmittedBefore(n, "root", doc[n].parent)
    /\ pc = "done" =>
          \A o \in Occurrences : HoldersOf(TargetOf(o)) = {} => EdgesOf(o) = {}

\* the document is complete, holds an edge, and one hasNext occurrence of the
\* graph names a target that is no item
C6_Witness ==
    /\ pc = "done"
    /\ \E n \in DOMAIN doc : doc[n].kind = "edge"
    /\ \E o \in Occurrences : HoldersOf(TargetOf(o)) = {}

-----------------------------------------------------------------------------
(* C7 *)

\* the entries (procedure, position) of the item maps that hold item i
EntriesOf(i) ==
    UNION {{<<p, k>> : k \in {m \in DOMAIN data_struct[p].items : data_struct[p].items[m].id = i}} :
             p \in DOMAIN data_struct}

\* the identifiers of the node cells emitted for the entry
CopyIdsOf(pk) ==
    {doc[n].id : n \in NodesOfEntry(data_struct[pk[1]].id, data_struct[pk[1]].items[pk[2]].id)}

EndsOf(o) == {<<doc[n].source, doc[n].target>> : n \in EdgesOf(o)}

\* C7 as claimed: every occurrence of an existing item v in the next sequence of
\* an item u yields exactly |stakeholders(u)| * |stakeholders(v)| edges, one for
\* each pair (lane copy of u, lane copy of v).
C7_EdgesPerOccurrence ==
    pc = "done" =>
        \A o \in Occurrences : \A pk \in EntriesOf(TargetOf(o)) :
            LET u == data_struct[o[1]].items[o[2]]
                v == data_struct[pk[1]].items[pk[2]]
            IN /\ Cardinality(EdgesOf(o)) = Len(u.stakeholders) * Len(v.stakeholders)
               /\ EndsOf(o) = CopyIdsOf(<<o[1], o[2]>>) \X CopyIdsOf(pk)

\* the node identifiers id_map holds for item i when the edge pass starts
RegisteredCopies(i) ==
    IF IndexOf(id_map, i) = 0 THEN {}
    ELSE {id_map[IndexOf(id_map, i)].copies[n].uuid :
            n \in DOMAIN id_map[IndexOf(id_map, i)].copies}

\* what the code keeps of C7: the edges of an occurrence are the pairs of the
\* node identifiers id_map holds for the source identifier and for the target
\* identifier, one edge each.
C7_EdgesPerRegisteredPair ==
    pc = "done" =>
        \A o \in Occurrences :
            /\ Cardinality(EdgesOf(o)) =
                  Cardinality(RegisteredCopies(SourceOf(o))) * Cardinality(RegisteredCopies(TargetOf(o)))
            /\ EndsOf(o) = RegisteredCopies(SourceOf(o)) \X RegisteredCopies(TargetOf(o))

\* the document is complete and an occurrence between two items, each held by
\* one procedure, yielded more than one edge
C7_Witness ==
    /\ pc = "done"
    /\ \E o \in Occurrences :
          /\ Cardinality(HoldersOf(SourceOf(o))) = 1
          /\ Cardinality(HoldersOf(TargetOf(o))) = 1
          /\ Cardinality(EdgesOf(o)) > 1

-----------------------------------------------------------------------------
(* C8 *)

\* C8 as claimed: an item with k stakeholders has exactly k nodes in the whole
\* document, one in a lane of each of its stakeholders, no two in one lane.
C8_CopiesPerItem ==
    pc = "done" =>
        \A p \in DOMAIN data_struct : \A k \in DOMAIN data_struct[p].items :
            LET e == data_struct[p].items[k]
                nodes == NodesOf(e.id)
            IN /\ Cardinality(nodes) = Len(e.stakeholders)
               /\ {doc[LaneOfNode(n)].value : n \in nodes} = Range(e.stakeholders)
               /\ \A m \in nodes, n \in nodes : m # n => doc[m].parent # doc[n].parent

\* what the code keeps of C8: an entry with k stakeholders has exactly k nodes
\* in the pool of its procedure, one in the lane of each of its stakeholders.
C8_CopiesPerEntry ==
    pc = "done" =>
        \A p \in DOMAIN data_struct : \A k \in DOMAIN data_struct[p].items :
            LET e == data_struct[p].items[k]
                nodes == NodesOfEntry(data_struct[p].id, e.id)
            IN /\ Cardinality(nodes) = Len(e.stakeholders)
               /\ {doc[LaneOfNode(n)].value : n \in nodes} = Range(e.stakeholders)
               /\ \A n \in nodes : doc[LaneOfNode(n)].milestone = data_struct[p].id
               /\ \A m \in nodes, n \in nodes : m # n => doc[m].parent # doc[n].parent

\* the document is complete and holds the nodes of an item with two stakeholders
C8_Witness ==
    /\ pc = "done"
    /\ \E p \in DOMAIN data_struct : \E k \in DOMAIN data_struct[p].items :
          /\ Len(data_struct[p].items[k].stakeholders) = 2
          /\ Cardinality(NodesOf(data_struct[p].items[k].id)) = 2

-----------------------------------------------------------------------------
(* C9 *)

ItemsOfProcedure(milestone_id) == data_struct[IndexOf(data_struct, milestone_id)].items

\* the items of the procedure that have stakeholder sh
LaneItems(milestone_id, sh) ==
    {k \in DOMAIN ItemsOfProcedure(milestone_id) :
        Contains(ItemsOfProcedure(milestone_id)[k].stakeholders, sh)}

\* how many items of the procedure have stakeholder sh and rank r
Occupancy(milestone_id, sh, r) ==
    LET items == ItemsOfProcedure(milestone_id)
        ranks == calculate_vertical_order(items)
    IN Cardinality({k \in LaneItems(milestone_id, sh) : ranks[items[k].id] = r})

BusiestRank(milestone_id, sh) ==
    SetMax({Occupancy(milestone_id, sh, r) : r \in 0..Len(ItemsOfProcedure(milestone_id))})

\* C9: the width of every lane is the occupancy of its busiest rank times
\* (item_width + h_padding), plus h_padding.
C9_LaneWidth ==
    \A n \in DOMAIN doc :
        doc[n].kind = "lane" =>
            doc[n].width =
                BusiestRank(doc[n].milestone, doc[n].value) * (item_width + h_padding) + h_padding

\* a lane has been emitted whose busiest rank holds fewer items than the lane
C9_Witness ==
    \E n \in DOMAIN doc :
        /\ doc[n].kind = "lane"
        /\ BusiestRank(doc[n].milestone, doc[n].value) <
              Cardinality(LaneItems(doc[n].milestone, doc[n].value))

-----------------------------------------------------------------------------
(* C10 *)

\* the nodes that share the (lane, rank) cell of node n
CellOf(n) ==
    {m \in DOMAIN doc : /\ doc[m].kind = "node"
                         /\ doc[m].parent = doc[n].parent
                         /\ doc[m].lvl = doc[n].lvl}

\* C10: when a pool is complete, the occupants of every (lane, rank) cell hold
\* the slot indices 0..total-1 once each; the slots [i*lw/total, (i+1)*lw/total)
\* are pairwise disjoint and run from 0 to the lane width lw; every node lies in
\* its slot and no two nodes of a cell overlap. (Slot bounds are compared after
\* multiplying by total.)
C10_SlotsDisjoint ==
    \A n \in DOMAIN doc :
        doc[n].kind = "node" =>
            LET cell  == CellOf(n)
                total == Cardinality(cell)
                lw    == doc[LaneOfNode(n)].width
                i     == doc[n].slot_index
            IN /\ {doc[m].slot_index : m \in cell} = 0..(total - 1)
               /\ \A m \in cell : m # n =>
                     /\ doc[m].slot_index # i
                     /\ \/ (i + 1) * lw <= doc[m].slot_index * lw
                        \/ (doc[m].slot_index + 1) * lw <= i * lw
                     /\ \/ doc[n].x + item_width <= doc[m].x
                        \/ doc[m].x + item_width <= doc[n].x
               /\ \E m \in cell : doc[m].slot_index * lw = 0
               /\ \E m \in cell : (doc[m].slot_index + 1) * lw = total * lw
               /\ i * lw <= doc[n].x * total
               /\ (doc[n].x + item_width) * total <= (i + 1) * lw
               /\ doc[n].width = item_width

\* a cell with two occupants has been laid out
C10_Witness ==
    \E n \in DOMAIN doc : doc[n].kind = "node" /\ Cardinality(CellOf(n)) >= 2

-----------------------------------------------------------------------------
(* C11 *)

NodeCount(d) == Cardinality({n \in DOMAIN d : d[n].kind = "node"})

EdgeCount(d) == Cardinality({n \in DOMAIN d : d[n].kind = "edge"})

\* the fill colours of the nodes, in document order
NodeFills(d) ==
    LET nodes == SelectSeq(d, LAMBDA c : c.kind = "node")
    IN [n \in DOMAIN nodes |-> <<nodes[n].item, nodes[n].fill>>]

\* C11: a second run on the same input ends with the same item-to-colour
\* bindings, the same number of nodes and the same number of edges as the first.
C11_SameColoursAndCounts ==
    (pc = "done" /\ earlier # NoRun) =>
        /\ multi_item_color = earlier.multi_item_color
        /\ NodeFills(doc) = NodeFills(earlier.doc)
        /\ NodeCount(doc) = NodeCount(earlier.doc)
        /\ EdgeCount(doc) = EdgeCount(earlier.doc)

\* two runs on a graph with a coloured item and an edge have completed, the
\* second with another random state than the first
C11_Witness ==
    /\ pc = "done"
    /\ earlier # NoRun
    /\ multi_item_color # <<>>
    /\ EdgeCount(doc) > 0
    /\ doc # earlier.doc

-----------------------------------------------------------------------------
(* C12 *)

\* C12 as claimed: the second run emits the document of the first, element for
\* element and attribute for attribute, identifiers included.
C12_SameDocument ==
    (pc = "done" /\ earlier # NoRun) => doc = earlier.doc

\* position in d of the cell with the given identifier, 0 if there is none
PositionOf(d, id) ==
    IF \E n \in DOMAIN d : d[n].id = id
    THEN CHOOSE n \in DOMAIN d : d[n].id = id
    ELSE 0

\* d with every identifier replaced by the position of the cell that carries it
Shape(d) ==
    [n \in DOMAIN d |->
        [d[n] EXCEPT !.id = n,
                     !.parent = PositionOf(d, d[n].parent),
                     !.source = PositionOf(d, d[n].source),
                     !.target = PositionOf(d, d[n].target)]]

\* what the code keeps of C12: the two documents agree in everything but the
\* identifiers, which correspond cell by cell.
C12_SameShape ==
    (pc = "done" /\ earlier # NoRun) => Shape(doc) = Shape(earlier.doc)

\* two runs have completed on a graph with a node, the second with another
\* random state than the first
C12_Witness ==
    /\ pc = "done"
    /\ earlier # NoRun
    /\ NodeCount(doc) > 0
    /\ doc[3].id # earlier.doc[3].id

-----------------------------------------------------------------------------
(* C13 *)

\* the identifier is a procedure of the graph or an item of some procedure
Established(id) == IndexOf(data_struct, id) # 0 \/ HoldersOf(id) # {}

\* C13 as claimed: a sourceText triple whose subject is established by no
\* triple of the stream leaves no trace: parse_data returns no tooltip for a
\* subject that is neither a procedure nor an item of the returned graph.
C13_DanglingTooltipDropped ==
    pc = "parsed" =>
        \A s \in TipSubjects : ~Established(s) => tooltips[s] = None

\* the loop iteration reads a sourceText triple
SourceTextStep == nread' = nread + 1 /\ last'.pred = "sourcetext"

\* what the code keeps of C13: a sourceText triple never changes the graph, and
\* its text is recorded under its subject whether or not the subject is
\* established.
C13_TooltipRecorded ==
    [][SourceTextStep =>
          /\ data_struct' = data_struct
          /\ tooltips' = [tooltips EXCEPT ![last'.subj] = last'.obj]]_vars

\* parse_data has returned a tooltip for a subject that is neither a procedure
\* nor an item of the returned graph
C13_Witness ==
    /\ pc = "parsed"
    /\ \E s \in TipSubjects : ~Established(s) /\ tooltips[s] # None

-----------------------------------------------------------------------------
(* C14 *)

EmptyProcedures(ds) == {ds[p].id : p \in {q \in DOMAIN ds : ds[q].items = <<>>}}

\* C14: no cell of the complete document belongs to a procedure without items,
\* and the run on the graph without its empty procedures emits the same
\* document: cell for cell up to the identifiers drawn, and identical, offsets
\* and identifiers included, when both runs draw from the same random state.
C14_EmptyProcedureSkipped ==
    pc = "done" =>
        /\ \A n \in DOMAIN doc : doc[n].milestone \notin EmptyProcedures(data_struct)
        /\ earlier # NoRun =>
              /\ \A n \in DOMAIN earlier.doc :
                    earlier.doc[n].milestone \notin EmptyProcedures(earlier.structured_data)
              /\ Shape(doc) = Shape(earlier.doc)
              /\ uuid_seed = earlier.uuid_seed => doc = earlier.doc

\* the run on a graph whose first procedure is empty and whose second has a
\* pool, and the run on the graph without the empty procedure, have completed
C14_Witness ==
    /\ pc = "done"
    /\ earlier # NoRun
    /\ earlier.structured_data # data_struct
    /\ earlier.structured_data[1].items = <<>>
    /\ \E n \in DOMAIN doc : doc[n].kind = "pool"
    /\ uuid_seed = earlier.uuid_seed

-----------------------------------------------------------------------------
(* C15 *)

\* lines 39-40 and 46-47: data_struct[milestone_id] is looked up for every owner
\* item_to_milestone holds
OwnerLookupsDefined ==
    \A i \in DOMAIN item_to_milestone :
        item_to_milestone[i] # None => IndexOf(data_struct, item_to_milestone[i]) # 0

\* lines 145-262 for the procedure the pool loop is about to lay out: the
\* maximum is over a non-empty set of ranks, every item has a rank, every
\* stakeholder of every item has a lane and a width, and the occupancy the slot
\* width divides by is not zero
PoolLookupsDefined(items) ==
    LET item_levels == calculate_vertical_order(items)
        lanes       == all_stakeholders(items)
        counts      == lane_level_counts(items, item_levels)
        widths      == lane_widths(counts, lanes)
    IN /\ {item_levels[i] : i \in DOMAIN item_levels} # {}
       /\ \A k \in DOMAIN items :
             /\ items[k].id \in DOMAIN item_levels
             /\ \A j \in DOMAIN items[k].stakeholders :
                   LET sh == items[k].stakeholders[j]
                   IN /\ Contains(lanes, sh)
                      /\ sh \in DOMAIN widths
                      /\ <<sh, item_levels[items[k].id]>> \in DOMAIN counts
                      /\ counts[<<sh, item_levels[items[k].id]>>] > 0

\* lines 312-313: the edge pass looks up only identifiers id_map holds, and
\* line 268 found a bound colour for every node of a multi-stakeholder item
EmittedLookupsDefined ==
    \A n \in DOMAIN doc :
        /\ doc[n].kind = "node" =>
              doc[n].fill \in Range(MULTI_COLORS) \cup {single_fill}
        /\ doc[n].kind = "edge" =>
              doc[n].source # NoId /\ doc[n].target # NoId

\* C15: on every stream parse_data and create_drawio_xml run to completion:
\* every lookup finds its key, no occupancy divided by is zero, no maximum is
\* over an empty set, and until the document is complete the pipeline is at a
\* position that has a next step.
C15_NoErrorState ==
    /\ pc = "parse" => OwnerLookupsDefined
    /\ (pc = "pools" /\ milestone_idx < Len(data_struct)) =>
          (data_struct[milestone_idx + 1].items # <<>> =>
              PoolLookupsDefined(data_struct[milestone_idx + 1].items))
    /\ EmittedLookupsDefined
    /\ pc \in {"parse", "parsed", "pools", "done"}
    /\ pc = "pools" => milestone_idx <= Len(data_struct)

\* the document is complete for a stream that sequenced an item under two
\* procedures, referred to an item no procedure owns, and closed a cycle
C15_Witness ==
    /\ pc = "done"
    /\ \E i \in ItemIds : Cardinality(HoldersOf(i)) = 2
    /\ \E o \in Occurrences : TargetOf(o) = SourceOf(o) \/ HoldersOf(TargetOf(o)) = {}

-----------------------------------------------------------------------------
(* C16 *)

\* C16 as claimed: in the graph parse_data returns, every identifier in a next
\* sequence is an item of the graph.
C16_NextTargetsExist ==
    pc = "parsed" => \A o \in Occurrences : HoldersOf(TargetOf(o)) # {}

\* the loop iteration reads a hasNext triple whose subject has an owner
AcceptedNextStep ==
    /\ nread' = nread + 1
    /\ last'.pred = "hasnext"
    /\ OwnedItem(data_struct, item_to_milestone, last'.subj)

\* the items the edge cell n leads from and to
EdgeItems(n) ==
    {<<doc[a].item, doc[b].item>> :
        a \in {m \in DOMAIN doc : doc[m].kind = "node" /\ doc[m].id = doc[n].source},
        b \in {m \in DOMAIN doc : doc[m].kind = "node" /\ doc[m].id = doc[n].target}}

\* C16 amended: a hasNext triple with an owned subject appends its object to
\* the subject's next sequence whether or not the object is an item; in the
\* document an occurrence has edges exactly when its target is an item of the
\* graph, and each of its edges leads from a node of the source item to a node
\* of the target item.
C16_DanglingKeptNotDrawn ==
    /\ [][AcceptedNextStep =>
             LET p == IndexOf(data_struct, item_to_milestone[last'.subj])
                 k == IndexOf(data_struct[p].items, last'.subj)
             IN data_struct'[p].items[k].next =
                   Append(data_struct[p].items[k].next, last'.obj)]_vars
    /\ [](pc = "done" =>
             \A o \in Occurrences :
                /\ EdgesOf(o) # {} <=> HoldersOf(TargetOf(o)) # {}
                /\ \A n \in EdgesOf(o) : EdgeItems(n) = {<<SourceOf(o), TargetOf(o)>>})

\* the document is complete for a graph in which one next sequence holds an
\* item of the graph and an identifier that is no item
C16_Witness ==
    /\ pc = "done"
    /\ \E o \in Occurrences, q \in Occurrences :
          /\ o[1] = q[1] /\ o[2] = q[2]
          /\ HoldersOf(TargetOf(o)) = {}
          /\ EdgesOf(q) # {}

-----------------------------------------------------------------------------
(* C17 *)

\* the number of edges of the longest path of E that ends at v and has at most
\* k edges; E is a set, so it is the same for every multiplicity of the edges
RECURSIVE LongestTo(_, _, _)
LongestTo(E, v, k) ==
    LET preds == {e[1] : e \in {f \in E : f[2] = v}}
    IN IF k = 0 \/ preds = {} THEN 0
       ELSE SetMax({LongestTo(E, u, k - 1) + 1 : u \in preds})

\* some next list of the procedure holds an item of the procedure twice
HasDuplicateEdge(items) ==
    \E k \in DOMAIN items : \E i, j \in DOMAIN items[k].next :
        i < j /\ items[k].next[i] = items[k].next[j]
              /\ items[k].next[i] \in ItemKeys(items)

\* C17: for an acyclic procedure the rank of an item is the number of edges of
\* the longest within-procedure hasNext path ending at it, a function of the
\* set of edges alone, so repeated edges change no rank; an item has rank 0
\* exactly when no within-procedure edge points at it.
C17_RankIsLongestPath ==
    (pc = "lv_done" /\ Acyclic(lv.items)) =>
        \A i \in ItemKeys(lv.items) :
            /\ lv.levels[i] = LongestTo(WithinEdges(lv.items), i, Len(lv.items))
            /\ lv.levels[i] = 0 <=> ~\E e \in WithinEdges(lv.items) : e[2] = i

\* an acyclic procedure with a repeated edge and an item of rank 2 is ranked
C17_Witness ==
    /\ pc = "lv_done"
    /\ Acyclic(lv.items)
    /\ HasDuplicateEdge(lv.items)
    /\ \E i \in ItemKeys(lv.items) : lv.levels[i] = 2

-----------------------------------------------------------------------------
(* C18 *)

IsPrefix(s, t) == Len(s) <= Len(t) /\ SubSeq(t, 1, Len(s)) = s

\* every procedure and item of ds is in dt at its place, with a stakeholder
\* list and a next sequence that extend the ones it has in ds
GrownFrom(ds, dt) ==
    \A p \in DOMAIN ds :
        /\ p \in DOMAIN dt
        /\ dt[p].id = ds[p].id
        /\ \A k \in DOMAIN ds[p].items :
              /\ k \in DOMAIN dt[p].items
              /\ dt[p].items[k].id = ds[p].items[k].id
              /\ IsPrefix(ds[p].items[k].stakeholders, dt[p].items[k].stakeholders)
              /\ IsPrefix(ds[p].items[k].next, dt[p].items[k].next)

\* the loop iteration reads a hasSequencedItem triple for a pair the graph holds
RepeatedSequencedStep ==
    /\ nread' = nread + 1
    /\ last'.pred = "hassequenceditem"
    /\ \E p \in DOMAIN data_struct :
          /\ data_struct[p].id = last'.subj
          /\ IndexOf(data_struct[p].items, last'.obj) # 0

\* C18: every triple parse_data reads leaves each procedure and item in the
\* graph, with its stakeholder list and next sequence extended at the end or
\* unchanged; a hasSequencedItem triple for a (procedure, item) pair the graph
\* already holds leaves the graph as it is.
C18_GraphOnlyGrows ==
    [][/\ nread' = nread + 1 => GrownFrom(data_struct, data_struct')
       /\ RepeatedSequencedStep => data_struct' = data_struct]_vars

\* a hasSequencedItem triple has just been read for an item that has a
\* stakeholder and a successor in the procedure the triple names
C18_Witness ==
    /\ pc = "parse"
    /\ last.pred = "hassequenceditem"
    /\ \E p \in DOMAIN data_struct :
          /\ data_struct[p].id = last.subj
          /\ \E k \in DOMAIN data_struct[p].items :
                /\ data_struct[p].items[k].id = last.obj
                /\ data_struct[p].items[k].stakeholders # <<>>
                /\ data_struct[p].items[k].next # <<>>

-----------------------------------------------------------------------------
(* C19 *)

\* the entries of the graph in iteration order, as (procedure, item) positions
RECURSIVE EntrySeq(_, _)
EntrySeq(ds, p) ==
    IF p > Len(ds) THEN <<>>
    ELSE [k \in DOMAIN ds[p].items |-> <<p, k>>] \o EntrySeq(ds, p + 1)

\* the identifiers of the entries with more than one stakeholder, each once,
\* in the order the pool loop meets them
MultiIds(ds) ==
    LET multi == SelectSeq(EntrySeq(ds, 1),
                           LAMBDA e : Len(ds[e[1]].items[e[2]].stakeholders) > 1)
    IN Distinct([n \in DOMAIN multi |-> ds[multi[n][1]].items[multi[n][2]].id])

BoundColour(item_id) ==
    multi_item_color[IndexOf(multi_item_color, item_id)].color

\* the n-th distinct multi-stakeholder identifier holds palette[n mod 10]
PaletteOrder ==
    multi_item_color =
        [n \in DOMAIN MultiIds(data_struct) |->
            [id |-> MultiIds(data_struct)[n],
             color |-> MULTI_COLORS[((n - 1) % 10) + 1]]]

NodeCells == {n \in DOMAIN doc : doc[n].kind = "node"}

\* the entry of the graph the node cell n was emitted for
EntryOfNode(n) ==
    LET p == IndexOf(data_struct, doc[n].milestone)
    IN data_struct[p].items[IndexOf(data_struct[p].items, doc[n].item)]

\* C19 as claimed, an Item being what an identifier names: the n-th distinct
\* multi-stakeholder Item holds palette[n mod 10], every node copy of an Item
\* with a colour carries it, every other node copy is #ffffff, and no colour
\* of the palette is #ffffff.
C19_ColourPerItem ==
    pc = "done" =>
        /\ PaletteOrder
        /\ \A n \in NodeCells :
              doc[n].fill = IF IndexOf(multi_item_color, doc[n].item) # 0
                            THEN BoundColour(doc[n].item) ELSE single_fill
        /\ \A c \in Range(MULTI_COLORS) : c # single_fill

\* what holds: the n-th distinct identifier with a multi-stakeholder entry holds
\* palette[n mod 10]; a binding made is kept while the pools are laid out; a
\* node copy carries the colour of its identifier when its own entry has more
\* than one stakeholder and #ffffff when it has one; no colour of the palette
\* is #ffffff.
C19_ColourPerEntry ==
    /\ [][pc = "pools" => IsPrefix(multi_item_color, multi_item_color')]_vars
    /\ [](pc = "done" =>
            /\ PaletteOrder
            /\ \A n \in NodeCells :
                  doc[n].fill = IF Len(EntryOfNode(n).stakeholders) > 1
                                THEN BoundColour(doc[n].item) ELSE single_fill
            /\ \A c \in Range(MULTI_COLORS) : c # single_fill)

\* the document is complete for a graph with more multi-stakeholder items than
\* the palette has colours, one of them held by a second procedure with a
\* single stakeholder
C19_Witness ==
    /\ pc = "done"
    /\ Len(multi_item_color) > Len(MULTI_COLORS)
    /\ \E n \in NodeCells :
          /\ IndexOf(multi_item_color, doc[n].item) # 0
          /\ Len(EntryOfNode(n).stakeholders) = 1

-----------------------------------------------------------------------------
(* C20 *)

\* the (entry, copy) positions of id_map that hold the identifier u
KeysHolding(u) ==
    {mc \in UNION {{<<m, c>> : c \in DOMAIN id_map[m].copies} : m \in DOMAIN id_map} :
        id_map[mc[1]].copies[mc[2]].uuid = u}

\* the node cell n is the source of an edge of every occurrence that leads from
\* its item to an item of the graph, and the target of an edge of every
\* occurrence that leads to its item
TakesPart(n) ==
    \A o \in Occurrences :
        /\ (SourceOf(o) = doc[n].item /\ HoldersOf(TargetOf(o)) # {}) =>
               \E e \in EdgesOf(o) : doc[e].source = doc[n].id
        /\ TargetOf(o) = doc[n].item =>
               \E e \in EdgesOf(o) : doc[e].target = doc[n].id

\* C20 as claimed: when the edges are built the identifier of every node cell
\* is held by id_map under exactly one key, the (item, stakeholder) of the
\* cell; the identifiers of the node cells are pairwise distinct; and every
\* node cell takes part in the edges of its item.
C20_EveryCopyRegistered ==
    pc = "done" =>
        /\ \A n \in NodeCells :
              /\ Cardinality(KeysHolding(doc[n].id)) = 1
              /\ \A mc \in KeysHolding(doc[n].id) :
                    /\ id_map[mc[1]].id = doc[n].item
                    /\ id_map[mc[1]].copies[mc[2]].id = doc[n].sh
              /\ TakesPart(n)
        /\ \A m \in NodeCells, n \in NodeCells : m # n => doc[m].id # doc[n].id

\* the node cell n is the last one emitted for its (item, stakeholder)
LastOfKey(n) ==
    \A m \in NodeCells : (doc[m].item = doc[n].item /\ doc[m].sh = doc[n].sh) => m <= n

\* what holds: the identifiers of the node cells are pairwise distinct; id_map
\* holds, under each (item, stakeholder) key, the identifier of the last node
\* cell emitted for that key and nothing else; the node cells it holds take
\* part in the edges of their items.
C20_LastCopyRegistered ==
    pc \in {"pools", "done"} =>
        /\ \A m \in NodeCells, n \in NodeCells : m # n => doc[m].id # doc[n].id
        /\ \A n \in NodeCells :
              IF LastOfKey(n)
              THEN /\ Cardinality(KeysHolding(doc[n].id)) = 1
                   /\ \A mc \in KeysHolding(doc[n].id) :
                         /\ id_map[mc[1]].id = doc[n].item
                         /\ id_map[mc[1]].copies[mc[2]].id = doc[n].sh
                   /\ pc = "done" => TakesPart(n)
              ELSE KeysHolding(doc[n].id) = {}
        /\ \A m \in DOMAIN id_map : \A c \in DOMAIN id_map[m].copies :
              \E n \in NodeCells : doc[n].id = id_map[m].copies[c].uuid

\* the edges are built while id_map has lost the identifier of a node cell of
\* an item that has a successor among the items
C20_Witness ==
    /\ pc = "done"
    /\ \E n \in NodeCells :
          /\ KeysHolding(doc[n].id) = {}
          /\ \E o \in Occurrences :
                SourceOf(o) = doc[n].item /\ EdgesOf(o) # {}

-----------------------------------------------------------------------------
(* C21 *)

\* the pool cell the lane cell l names as its parent
PoolOfLane(l) == CHOOSE m \in DOMAIN doc : doc[m].kind = "pool" /\ doc[m].id = doc[l].parent

\* the rank calculate_vertical_order gives the item of the node cell n in the
\* procedure the cell was emitted for
RankOfNode(n) ==
    calculate_vertical_order(ItemsOfProcedure(doc[n].milestone))[doc[n].item]

\* the largest rank among the node cells of the pool cell p
MaxRankIn(p) ==
    SetMax({RankOfNode(n) : n \in {m \in NodeCells : PoolOfLane(LaneOfNode(m)) = p}})

\* C21: every node rectangle lies inside its lane: 0 <= x, x + item_width <=
\* lane width, lane_header_height <= y, y + item_height <= lane height, the
\* lane height being the pool height minus pool_header_height, the pool
\* height (max_rank + 1) * vertical_spacing + lane_header_height + 60 and
\* y = lane_header_height + 10 + rank * vertical_spacing.
C21_NodeInsideLane ==
    pc \in {"pools", "done"} =>
        \A n \in NodeCells :
            LET lane == doc[LaneOfNode(n)]
                pool == doc[PoolOfLane(LaneOfNode(n))]
            IN /\ doc[n].x >= 0
               /\ doc[n].x + doc[n].width <= lane.width
               /\ doc[n].y >= lane_header_height
               /\ doc[n].y + doc[n].height <= lane.height
               /\ doc[n].width = item_width
               /\ doc[n].height = item_height
               /\ lane.height = pool.height - pool_header_height
               /\ pool.height = (MaxRankIn(PoolOfLane(LaneOfNode(n))) + 1) * vertical_spacing
                                   + lane_header_height + 60
               /\ doc[n].y = lane_header_height + 10 + RankOfNode(n) * vertical_spacing

\* the document is complete with a node of rank 1 or more and a node that is
\* not the first of its lane at its rank
C21_Witness ==
    /\ pc = "done"
    /\ \E n \in NodeCells : RankOfNode(n) >= 1
    /\ \E n \in NodeCells : doc[n].slot_index >= 1

-----------------------------------------------------------------------------
(* C22 *)

PoolCells == {p \in DOMAIN doc : doc[p].kind = "pool"}

\* the lane cells of the pool cell p, in document order
LanesOfPool(p) == SelectSeq(doc, LAMBDA c : c.kind = "lane" /\ c.parent = doc[p].id)

\* the stakeholder names of the items of the procedure
NamesOfProcedure(milestone_id) ==
    UNION {Range(ItemsOfProcedure(milestone_id)[k].stakeholders) :
             k \in DOMAIN ItemsOfProcedure(milestone_id)}

\* C22: the lanes of a pool are the distinct stakeholder names of the
\* procedure's items in ascending string order, each lane starts at the sum of
\* the widths of the lanes before it, and the pool is as wide as its lanes
\* together.
C22_LanesSortedContiguous ==
    pc \in {"pools", "done"} =>
        \A p \in PoolCells :
            LET lanes == LanesOfPool(p) IN
            /\ {lanes[i].value : i \in DOMAIN lanes} = NamesOfProcedure(doc[p].milestone)
            /\ \A i \in DOMAIN lanes, j \in DOMAIN lanes :
                  i < j => StrLess(lanes[i].value, lanes[j].value)
            /\ \A i \in DOMAIN lanes :
                  lanes[i].x = SumSeq([j \in 1..(i - 1) |-> lanes[j].width])
            /\ doc[p].width = SumSeq([j \in DOMAIN lanes |-> lanes[j].width])

\* the document is complete with a pool of two lanes whose names the items
\* give in descending order, the second lane wider than the first
C22_Witness ==
    /\ pc = "done"
    /\ \E p \in PoolCells :
          LET lanes == LanesOfPool(p)
              items == ItemsOfProcedure(doc[p].milestone)
          IN /\ Len(lanes) = 2
             /\ items[1].stakeholders[1] = lanes[2].value
             /\ lanes[2].width > lanes[1].width

-----------------------------------------------------------------------------
(* C23 *)

\* the pool cells in document order
PoolSeq == SelectSeq(doc, LAMBDA c : c.kind = "pool")

\* the procedures the pool loop has passed that have items, in graph order
LaidOut ==
    LET passed == SelectSeq(SubSeq(data_struct, 1, milestone_idx),
                            LAMBDA proc : proc.items # <<>>)
    IN [i \in DOMAIN passed |-> passed[i].id]

\* C23: the pools are those of the procedures with items, in the order of the
\* graph; the first is at x_start, each later one at the x of the pool before
\* it plus that pool's width plus inter_pool_gap, so any two pools are at
\* least inter_pool_gap apart.
C23_PoolsLeftToRight ==
    pc \in {"pools", "done"} =>
        /\ [i \in DOMAIN PoolSeq |-> PoolSeq[i].milestone] = LaidOut
        /\ PoolSeq # <<>> => PoolSeq[1].x = x_start
        /\ \A i \in DOMAIN PoolSeq :
              i > 1 => PoolSeq[i].x = PoolSeq[i - 1].x + PoolSeq[i - 1].width + inter_pool_gap
        /\ \A i \in DOMAIN PoolSeq, j \in DOMAIN PoolSeq :
              i < j => PoolSeq[i].x + PoolSeq[i].width + inter_pool_gap <= PoolSeq[j].x
        /\ \A i \in DOMAIN PoolSeq : PoolSeq[i].width > 0

\* the document is complete for a graph that starts with a procedure without
\* items and has three pools, not all of one width
C23_Witness ==
    /\ pc = "done"
    /\ data_struct[1].items = <<>>
    /\ Len(PoolSeq) >= 3
    /\ \E i \in DOMAIN PoolSeq, j \in DOMAIN PoolSeq : PoolSeq[i].width # PoolSeq[j].width

-----------------------------------------------------------------------------
(* C24 *)

\* the rank and the y each node cell of the document d was emitted with
RanksIn(d) ==
    {<<d[n].milestone, d[n].item, d[n].sh, d[n].lvl, d[n].y>> :
        n \in {m \in DOMAIN d : d[m].kind = "node"}}

\* the occurrences whose target is an item of another procedure only
CrossOccurrences == {o \in Occurrences : LeadsAcross(data_struct, o[1], TargetOf(o))}

-----------------------------------------------------------------------------
(* C25 *)

NoRepeat(q) == \A i \in DOMAIN q, j \in DOMAIN q : i # j => q[i] # q[j]

\* C25: calculate_vertical_order returns on every procedure, cyclic ones
\* included; until then no item is enqueued or dequeued twice and no in-degree
\* counter is negative, and every rank it returns is between 0 and the number
\* of items minus 1.
C25_LevelingTerminates ==
    /\ [](pc \in {"lv_loop", "lv_done"} =>
            /\ NoRepeat(lv.enqueued)
            /\ NoRepeat(lv.dequeued)
            /\ \A i \in ItemKeys(lv.items) : lv.in_degree[i] >= 0)
    /\ [](pc = "lv_done" =>
            \A i \in ItemKeys(lv.items) :
                lv.levels[i] >= 0 /\ lv.levels[i] <= Len(lv.items) - 1)
    /\ <>(pc = "lv_done")

\* the function has returned on a procedure with a cycle and a repeated edge,
\* one item of which was pushed down by a predecessor
C25_Witness ==
    /\ pc = "lv_done"
    /\ \E i \in ItemKeys(lv.items) : OnCycle(lv.items, i)
    /\ HasDuplicateEdge(lv.items)
    /\ \E i \in ItemKeys(lv.items) : lv.levels[i] >= 1
    /\ Len(lv.dequeued) < Len(lv.items)

====
